---- MODULE Spec2Model ----
(***************************************************************************)
(* KS1 Escrow Pay backend: the transaction lifecycle handlers of the       *)
(* express server over the Transaction, Payment and Commission             *)
(* collections.                                                            *)
(*                                                                         *)
(* Amounts are integers in minor units (1/100 of the currency unit).  A    *)
(* handler is split at its awaits: the code before the first await runs    *)
(* together with the first store operation, every later store operation    *)
(* is a step of its own, and any store operation may reject.               *)
(*                                                                         *)
(* Spec is the server of src/server.js with the delete-payment route of    *)
(* the revision in src/unnamed/part_000.  SpecPayments is the Payment      *)
(* handlers of that revision, whose Confirm Payment does not check its     *)
(* fields.  SpecReuse is the handlers that store and remove Transactions   *)
(* and Commissions, with a second creation and two handlers suspended at   *)
(* once, so that a generated identifier comes back after a deletion.       *)
(***************************************************************************)
EXTENDS Integers, FiniteSets, Sequences, TLC

\* ---------------------------------------------------------------- bounds
\* number of distinct identifiers generateTxID returns in the model
MaxTxIDs == 2
\* number of Transaction documents ever created
MaxTransactions == 1
\* number of Payment documents ever created
MaxPayments == 2
\* number of handlers suspended at an await at the same time (handlers with
\* a single await run between the awaits of a suspended one)
MaxRequests == 1
\* number of Transaction documents ever created where a generated identifier
\* is reused (SpecReuse)
MaxCreates == 2
\* number of suspended handlers where CreateTransaction and
\* AdminDeletePayment run concurrently (SpecReuse)
MaxSlots == 2

\* ------------------------------------------------------------- constants
\* generateTxID: Math.floor(100000 + Math.random() * 900000)
TxIDBase == 100000

TxIDs == TxIDBase .. (TxIDBase + MaxTxIDs - 1)
Requests == 1 .. MaxRequests
\* the handlers that can be suspended at the same time in any specification
Slots == 1 .. (IF MaxSlots > MaxRequests THEN MaxSlots ELSE MaxRequests)
\* ObjectIds of Transaction documents (never reused)
ObjectIds == 1 .. MaxTransactions
\* request amounts in minor units: negative, zero, and one whose 1% is an
\* exact tie between two hundredths
Amounts == {-1, 0, 150}
\* sign of (the double amount * 0.01) - (the exact product)
RoundingErrors == {-1, 0, 1}

StatusEnum ==
  {"pending_payment", "funded", "delivered", "completed", "disputed", "cancelled"}

VARIABLES
  transactions,     \* the Transaction collection
  payments,         \* the Payment collection
  commissions,      \* the Commission collection
  nextTransaction,  \* the next ObjectId of a Transaction document
  nextPayment,      \* the next ObjectId of a Payment document
  req,              \* the handlers suspended at an await
  last              \* the response sent by the step just taken, if any

vars == <<transactions, payments, commissions,
          nextTransaction, nextPayment, req, last>>

\* ------------------------------------------------------- pure functions
\* amount * 0.1 in place of amount * 0.01
Times01(amount, err) == [val |-> amount * 10, err |-> err]

\* amount * 0.01: the exact product in 1/10000 of the currency unit, and the
\* sign of the representation error of the double result
Times001(amount, err) == [val |-> amount, err |-> err]

\* Number.prototype.toFixed(2): the integer n of hundredths for which
\* n / 100 - x is closest to zero, the larger n when two are as close; a
\* negative x is formatted as "-" followed by the digits of -x
ToFixed2(x) ==
  LET neg == x.val < 0
      mag == IF neg THEN 0 - x.val ELSE x.val
      merr == IF neg THEN 0 - x.err ELSE x.err
      q == mag \div 100
      r == mag % 100
  IN [neg |-> neg,
      n |-> IF r > 50 \/ (r = 50 /\ merr >= 0) THEN q + 1 ELSE q]

\* parseFloat of a toFixed(2) string: a number of minor units
ParseFloat(s) == IF s.neg THEN 0 - s.n ELSE s.n

\* const fee = parseFloat((amount * 0.01).toFixed(2))
Fee(amount, err) == ParseFloat(ToFixed2(Times001(amount, err)))

\* --------------------------------------------------------------- requests
\* no handler is suspended in this slot
IdleRequest ==
  [pc |-> "idle", transaction_id |-> 0, fee |-> 0, oid |-> 0, quiet |-> FALSE]

\* no handler is suspended at an await
NoneInFlight == \A x \in Slots : req[x].pc = "idle"

\* a handler suspended at the await named pc, with its local variables;
\* quiet: since this request arrived no other request has been in flight
Await(pc, txid, fee, oid) ==
  [pc |-> pc, transaction_id |-> txid, fee |-> fee, oid |-> oid,
   quiet |-> NoneInFlight]

\* the step just taken sent no response
NoResponse == [op |-> "none", id |-> 0, res |-> 0, quiet |-> FALSE]

\* res.status(code).json(...), or res.json(...) with code 200; quiet: no
\* other request was in flight while the handler ran
Response(op, id, code, quiet) ==
  [op |-> op, id |-> id, res |-> code, quiet |-> quiet]

\* the requests in flight other than s have seen another request's step
Disturb(s) ==
  [x \in Slots |->
     IF x = s \/ req[x].pc = "idle" THEN req[x]
     ELSE [req[x] EXCEPT !.quiet = FALSE]]

\* a handler with a single await runs to its response
Serve(response) ==
  /\ req' = Disturb(0)
  /\ last' = response

\* a handler arrives and is suspended at its second await
Suspend(s, r) ==
  /\ req[s].pc = "idle"
  /\ \A x \in Slots : x < s => req[x].pc # "idle"
  /\ req' = [Disturb(s) EXCEPT ![s] = r]
  /\ last' = NoResponse

\* the suspended handler s resumes and is suspended again
Resume(s, r) ==
  /\ req' = [Disturb(s) EXCEPT ![s] = r]
  /\ last' = NoResponse

\* a handler that stays suspended at its await after a failure, to retry it
FinishRetrying(s, op, code) ==
  /\ req' = [Disturb(s) EXCEPT
               ![s] = IF code = 500 THEN req[s] ELSE IdleRequest]
  /\ last' = Response(op, req[s].transaction_id, code, req[s].quiet)

\* the suspended handler s resumes and runs to its response
Finish(s, op, code) ==
  /\ req' = [Disturb(s) EXCEPT ![s] = IdleRequest]
  /\ last' = Response(op, req[s].transaction_id, code, req[s].quiet)

Init ==
  /\ transactions = {}
  /\ payments = {}
  /\ commissions = {}
  /\ nextTransaction = 1
  /\ nextPayment = 1
  /\ req = [s \in Slots |-> IdleRequest]
  /\ last = NoResponse

\* ------------------------------------------------------ store operations
\* an empty filter: every document of coll matches
ByNoFilter(coll, txid) == coll

\* the documents of coll matching the filter { transaction_id }
ByTransactionId(coll, txid) == {d \in coll : d.transaction_id = txid}

\* the documents of coll matching the filter { _id }
ById(coll, id) == {d \in coll : d._id = id}

\* Model.findOneAndUpdate(filter, update): one matching document, if any,
\* is replaced by its update
FindOneAndUpdate(coll, match, update) ==
  IF match = {} THEN {coll}
  ELSE {(coll \ {d}) \cup {update[d]} : d \in match}

\* Model.findOneAndDelete(filter): one matching document, if any, is removed
FindOneAndDelete(coll, match) ==
  IF match = {} THEN {coll} ELSE {coll \ {d} : d \in match}

\* an update that moves a document already in the status on to completed
SetStatusAdvancing(d, status) ==
  [d EXCEPT !.status = IF d.status = status THEN "completed" ELSE status]

\* an update guarded by the current status: cancelled is kept
SetStatusGuarded(d, status) ==
  IF d.status = "cancelled" THEN d ELSE [d EXCEPT !.status = status]

\* an update that also clears the money fields
SetStatusClearAmount(d, status) ==
  [d EXCEPT !.status = status, !.amount = 0]

\* the update document { status: ... }
SetStatus(d, status) == [d EXCEPT !.status = status]

\* an update that flips the flag
SetVerifiedToggling(d) == [d EXCEPT !.verified = ~d.verified]

\* the update document { verified: false }
SetUnverified(d) == [d EXCEPT !.verified = FALSE]

\* the update document { verified: true }
SetVerified(d) == [d EXCEPT !.verified = TRUE]

\* new Transaction({ transaction_id, ..., amount, fee }) with the schema's
\* default status
NewTransaction(oid, txID, amount, fee) ==
  [_id |-> oid, transaction_id |-> txID, amount |-> amount, fee |-> fee,
   status |-> "pending_payment"]

\* new Commission({ transaction_id, amount }) with the schema's default status
NewCommission(oid, txID, amount) ==
  [_id |-> oid, transaction_id |-> txID, amount |-> amount,
   status |-> "pending"]

\* a Payment created already verified
NewPaymentVerified(oid, txID, momo_reference, verified) ==
  [_id |-> oid, transaction_id |-> txID, momo_reference |-> momo_reference,
   verified |-> TRUE]

\* new Payment({ transaction_id, momo_reference, verified }); a
\* momo_reference of 0 is undefined
NewPayment(oid, txID, momo_reference, verified) ==
  [_id |-> oid, transaction_id |-> txID, momo_reference |-> momo_reference,
   verified |-> verified]

\* no index on transaction_id
NoUniqueIndex(coll, txID) == TRUE

\* transaction_id: { unique: true }: the unique index admits a document
\* with this transaction_id
UniqueIndex(coll, txID) == \A d \in coll : d.transaction_id # txID

\* a cast that accepts any route parameter
IsAnyId(id) == TRUE

\* a route parameter that casts to an ObjectId (a transaction identifier
\* "KS1-dddddd" does not)
IsObjectId(id) == id < TxIDBase

\* a request body field: {} when absent, {v} when present
Optional(S) == {{}} \cup {{v} : v \in S}

\* !x for a request body field
Falsy(x) == x = {} \/ x = {0}

\* the value of a request body field, 0 when it is undefined
Value(x) == IF x = {} THEN 0 ELSE CHOOSE v \in x : TRUE

\* ------------------------------------------------ 3. Create Transaction
\* the request fails validation
CreateInvalid ==
  /\ {body \in [buyer_id : Optional({1}), seller_phone : Optional({1}),
                amount : Optional(Amounts)] :
        Falsy(body.buyer_id) \/ Falsy(body.seller_phone)
          \/ Falsy(body.amount)} # {}
  /\ Serve(Response("create", 0, 400, NoneInFlight))
  /\ UNCHANGED <<transactions, payments, commissions, nextTransaction,
                 nextPayment>>

\* the buyer lookup or Transaction.create rejects (a duplicate
\* transaction_id violates the unique index)
CreateRejected ==
  /\ \E txID \in TxIDs : Serve(Response("create", txID, 500, NoneInFlight))
  /\ UNCHANGED <<transactions, payments, commissions, nextTransaction,
                 nextPayment>>

\* validation, buyer lookup, fee, generateTxID and Transaction.create, while
\* fewer than limit Transaction documents have been created
TransactionCreate(s, limit) ==
  /\ nextTransaction <= limit
  /\ \E amount \in {a \in Amounts : ~Falsy({a})}, txID \in TxIDs :
       \E fee \in {Fee(amount, err) : err \in RoundingErrors} :
         /\ UniqueIndex(transactions, txID)
         /\ transactions' = transactions \cup
              {NewTransaction(nextTransaction, txID, amount, fee)}
         /\ Suspend(s, Await("create_commission", txID, fee,
                             nextTransaction))
  /\ nextTransaction' = nextTransaction + 1
  /\ UNCHANGED <<payments, commissions, nextPayment>>

CreateTransaction(s) == TransactionCreate(s, MaxTransactions)

\* Commission.create({ transaction_id: txID, amount: fee })
CreateCommission(s) ==
  /\ req[s].pc = "create_commission"
  /\ \/ /\ commissions' = commissions \cup
             {NewCommission(req[s].oid, req[s].transaction_id, req[s].fee)}
        /\ Finish(s, "create", 200)
     \/ /\ Finish(s, "create", 500)
        /\ UNCHANGED commissions
  /\ UNCHANGED <<transactions, payments, nextTransaction, nextPayment>>

\* ---------------------------------------------------- 5. Confirm Payment
SubmitPayment ==
  /\ \/ /\ {body \in [transaction_id : Optional(TxIDs),
                      momo_reference : Optional({1})] :
              Falsy(body.transaction_id) \/ Falsy(body.momo_reference)} # {}
        /\ Serve(Response("payment", 0, 400, NoneInFlight))
        /\ UNCHANGED <<payments, nextPayment>>
     \/ \E transaction_id \in TxIDs :
          \/ /\ nextPayment <= MaxPayments
             /\ payments' = payments \cup
                  {NewPayment(nextPayment, transaction_id, 1, FALSE)}
             /\ nextPayment' = nextPayment + 1
             /\ Serve(Response("payment", transaction_id, 200, NoneInFlight))
          \/ /\ Serve(Response("payment", transaction_id, 500, NoneInFlight))
             /\ UNCHANGED <<payments, nextPayment>>
  /\ UNCHANGED <<transactions, commissions, nextTransaction>>

\* the revision of the handler without the check of the fields:
\* Payment.create validates against PaymentSchema, where transaction_id is
\* required and momo_reference is not
ConfirmPayment ==
  /\ \E body \in [transaction_id : Optional(TxIDs),
                  momo_reference : Optional({1})] :
       \/ /\ body.transaction_id # {}
          /\ nextPayment <= MaxPayments
          /\ payments' = payments \cup
               {NewPayment(nextPayment, Value(body.transaction_id),
                           Value(body.momo_reference), FALSE)}
          /\ nextPayment' = nextPayment + 1
          /\ Serve(Response("payment", Value(body.transaction_id), 200,
                            NoneInFlight))
       \/ /\ Serve(Response("payment", Value(body.transaction_id), 500,
                            NoneInFlight))
          /\ UNCHANGED <<payments, nextPayment>>
  /\ UNCHANGED <<transactions, commissions, nextTransaction>>

\* Transaction.findByIdAndUpdate(req.params.id, { status })
UpdateStatusById(op, status) ==
  /\ \E id \in ObjectIds \cup TxIDs :
       \/ /\ IsObjectId(id)
          /\ transactions' \in
               FindOneAndUpdate(transactions, ById(transactions, id),
                 [t \in transactions |-> SetStatus(t, status)])
          /\ Serve(Response(op, id, 200, NoneInFlight))
       \/ /\ Serve(Response(op, id, 500, NoneInFlight))
          /\ UNCHANGED transactions
  /\ UNCHANGED <<payments, commissions, nextTransaction, nextPayment>>

\* --------------------------------------------------- 6. Confirm Delivery
ConfirmDelivery == UpdateStatusById("delivery", "delivered")

\* -------------------------------------------------------- 7. Open Dispute
OpenDispute == UpdateStatusById("dispute", "disputed")

\* ----------------------------------------------------- 9. Verify Payment
\* the first await rejects
VerifyRejected ==
  /\ \E transaction_id \in TxIDs :
       Serve(Response("verify", transaction_id, 500, NoneInFlight))
  /\ UNCHANGED <<transactions, payments, commissions, nextTransaction,
                 nextPayment>>

\* Payment.findOneAndUpdate({ transaction_id }, { verified: true })
AdminVerifyPayment(s) ==
  /\ \E transaction_id \in TxIDs :
       /\ payments' \in
            FindOneAndUpdate(payments,
                             ByTransactionId(payments, transaction_id),
                             [p \in payments |-> SetVerified(p)])
       /\ Suspend(s, Await("verify_transaction", transaction_id, 0, 0))
  /\ UNCHANGED <<transactions, commissions, nextTransaction, nextPayment>>

\* Transaction.findOneAndUpdate({ transaction_id }, { status: 'funded' })
VerifyTransaction(s) ==
  /\ req[s].pc = "verify_transaction"
  /\ \/ /\ transactions' \in
             FindOneAndUpdate(transactions,
               ByTransactionId(transactions, req[s].transaction_id),
               [t \in transactions |-> SetStatus(t, "funded")])
        /\ Finish(s, "verify", 200)
     \/ /\ Finish(s, "verify", 500)
        /\ UNCHANGED transactions
  /\ UNCHANGED <<payments, commissions, nextTransaction, nextPayment>>

\* ----------------------------------------------------- 10. Release Funds
\* the first await rejects
ReleaseRejected ==
  /\ \E transaction_id \in TxIDs :
       Serve(Response("release", transaction_id, 500, NoneInFlight))
  /\ UNCHANGED <<transactions, payments, commissions, nextTransaction,
                 nextPayment>>

\* Transaction.findOneAndUpdate({ transaction_id }, { status: 'completed' })
AdminReleaseFunds(s) ==
  /\ \E transaction_id \in TxIDs :
       /\ transactions' \in
            FindOneAndUpdate(transactions,
               ByTransactionId(transactions, transaction_id),
               [t \in transactions |-> SetStatus(t, "completed")])
       /\ Suspend(s, Await("release_commission", transaction_id, 0, 0))
  /\ UNCHANGED <<payments, commissions, nextTransaction, nextPayment>>

\* Commission.findOneAndUpdate({ transaction_id }, { status: 'paid' })
ReleaseCommission(s) ==
  /\ req[s].pc = "release_commission"
  /\ \/ /\ commissions' \in
             FindOneAndUpdate(commissions,
               ByTransactionId(commissions, req[s].transaction_id),
               [c \in commissions |-> SetStatus(c, "paid")])
        /\ Finish(s, "release", 200)
     \/ /\ Finish(s, "release", 500)
        /\ UNCHANGED commissions
  /\ UNCHANGED <<transactions, payments, nextTransaction, nextPayment>>

\* ------------------------------------------------------ 11. Refund Buyer
\* a refund that also takes the fee back: the Commission returns to pending
AdminRefundReversingFee ==
  /\ \E transaction_id \in TxIDs :
       \/ /\ transactions' \in
               FindOneAndUpdate(transactions,
               ByTransactionId(transactions, transaction_id),
               [t \in transactions |-> SetStatus(t, "cancelled")])
          /\ commissions' \in
               FindOneAndUpdate(commissions,
               ByTransactionId(commissions, transaction_id),
               [c \in commissions |-> SetStatus(c, "pending")])
          /\ Serve(Response("refund", transaction_id, 200, NoneInFlight))
       \/ /\ Serve(Response("refund", transaction_id, 500, NoneInFlight))
          /\ UNCHANGED <<transactions, commissions>>
  /\ UNCHANGED <<payments, nextTransaction, nextPayment>>

AdminRefund ==
  /\ \E transaction_id \in TxIDs :
       \/ /\ transactions' \in
               FindOneAndUpdate(transactions,
               ByTransactionId(transactions, transaction_id),
               [t \in transactions |-> SetStatus(t, "cancelled")])
          /\ Serve(Response("refund", transaction_id, 200, NoneInFlight))
       \/ /\ Serve(Response("refund", transaction_id, 500, NoneInFlight))
          /\ UNCHANGED transactions
  /\ UNCHANGED <<payments, commissions, nextTransaction, nextPayment>>

\* ---------------------------------------------------- 12. Delete Payment
\* the first await rejects
DeleteRejected ==
  /\ \E txId \in TxIDs : Serve(Response("delete", txId, 500, NoneInFlight))
  /\ UNCHANGED <<transactions, payments, commissions, nextTransaction,
                 nextPayment>>

\* Payment.findOneAndDelete({ transaction_id: txId })
AdminDeletePayment(s) ==
  /\ \E txId \in TxIDs :
       /\ payments' \in
            FindOneAndDelete(payments,
               ByTransactionId(payments, txId))
       /\ Suspend(s, Await("delete_transaction", txId, 0, 0))
  /\ UNCHANGED <<transactions, commissions, nextTransaction, nextPayment>>

\* Transaction.findOneAndDelete({ transaction_id: txId })
DeleteTransaction(s) ==
  /\ req[s].pc = "delete_transaction"
  /\ \/ /\ transactions' \in
             FindOneAndDelete(transactions,
               ByTransactionId(transactions, req[s].transaction_id))
        /\ Resume(s, [req[s] EXCEPT !.pc = "delete_commission"])
     \/ /\ Finish(s, "delete", 500)
        /\ UNCHANGED transactions
  /\ UNCHANGED <<payments, commissions, nextTransaction, nextPayment>>

\* Commission.findOneAndDelete({ transaction_id: txId })
DeleteCommission(s) ==
  /\ req[s].pc = "delete_commission"
  /\ \/ /\ commissions' \in
             FindOneAndDelete(commissions,
               ByTransactionId(commissions, req[s].transaction_id))
        /\ Finish(s, "delete", 200)
     \/ /\ Finish(s, "delete", 500)
        /\ UNCHANGED commissions
  /\ UNCHANGED <<transactions, payments, nextTransaction, nextPayment>>

\* ------------------------------------------------------------ the server
Next ==
  \/ CreateInvalid
  \/ CreateRejected
  \/ SubmitPayment
  \/ ConfirmDelivery
  \/ OpenDispute
  \/ VerifyRejected
  \/ ReleaseRejected
  \/ AdminRefund
  \/ DeleteRejected
  \/ \E s \in Requests :
       \/ CreateTransaction(s)
       \/ CreateCommission(s)
       \/ AdminVerifyPayment(s)
       \/ VerifyTransaction(s)
       \/ AdminReleaseFunds(s)
       \/ ReleaseCommission(s)
       \/ AdminDeletePayment(s)
       \/ DeleteTransaction(s)
       \/ DeleteCommission(s)

Spec == Init /\ [][Next]_vars

\* the Payment handlers of the revision whose Confirm Payment does not check
\* its fields
NextPayments ==
  \/ ConfirmPayment
  \/ VerifyRejected
  \/ DeleteRejected
  \/ \E s \in Requests :
       \/ AdminVerifyPayment(s)
       \/ VerifyTransaction(s)
       \/ AdminDeletePayment(s)
       \/ DeleteTransaction(s)
       \/ DeleteCommission(s)

SpecPayments == Init /\ [][NextPayments]_vars

\* CreateTransaction while a generated identifier can come back after a
\* deletion
CreateTransactionAgain(s) == TransactionCreate(s, MaxCreates)

\* the handlers that store and remove Transactions and Commissions, running
\* concurrently
NextReuse ==
  \/ CreateRejected
  \/ ReleaseRejected
  \/ DeleteRejected
  \/ \E s \in Slots :
       \/ CreateTransactionAgain(s)
       \/ CreateCommission(s)
       \/ AdminReleaseFunds(s)
       \/ ReleaseCommission(s)
       \/ AdminDeletePayment(s)
       \/ DeleteTransaction(s)
       \/ DeleteCommission(s)

SpecReuse == Init /\ [][NextReuse]_vars

TypeOK ==
  /\ \A t \in transactions :
       /\ t._id \in ObjectIds /\ t.transaction_id \in TxIDs
       /\ t.amount \in Amounts /\ t.status \in StatusEnum
  /\ \A p \in payments :
       p._id \in 1 .. MaxPayments /\ p.transaction_id \in TxIDs
         /\ p.momo_reference \in {0, 1} /\ p.verified \in BOOLEAN
  /\ \A c \in commissions :
       /\ c._id \in ObjectIds /\ c.transaction_id \in TxIDs
       /\ c.status \in {"pending", "paid"}
  /\ nextTransaction \in 1 .. MaxTransactions + 1
  /\ nextPayment \in 1 .. MaxPayments + 1

\* ================================================================ claims
TransactionsOf(txid) == ByTransactionId(transactions, txid)
PaymentsOf(txid) == ByTransactionId(payments, txid)
CommissionsOf(txid) == ByTransactionId(commissions, txid)

\* fee (minor units) is amount / 100 rounded to a nearest integer
IsRounded(amount, fee) ==
  /\ 100 * fee - amount <= 50
  /\ amount - 100 * fee <= 50

\* the step is the first await of AdminVerifyPayment for txid
IsVerifyPaymentStep(txid) ==
  \E s \in Requests :
    /\ req[s].pc = "idle"
    /\ req'[s].pc = "verify_transaction"
    /\ req'[s].transaction_id = txid

\* C1: a CreateTransaction with amount > 0 stores a Transaction whose fee is
\* amount * 0.01 rounded to 2 decimals and whose status is pending_payment,
\* and when it succeeds it has stored a Commission for the same identifier
\* whose amount is that fee and whose status is pending.
C1_FeeRule ==
  [][/\ \A t \in transactions' :
          (\A u \in transactions : u._id # t._id) =>
            /\ t.amount > 0 => IsRounded(t.amount, t.fee)
            /\ t.status = "pending_payment"
            /\ \E s \in Requests :
                 /\ req'[s].pc = "create_commission"
                 /\ req'[s].transaction_id = t.transaction_id
                 /\ req'[s].fee = t.fee
                 /\ req'[s].oid = t._id
     /\ (last'.op = "create" /\ last'.res = 200) =>
          \E s \in Requests :
            /\ req[s].pc = "create_commission"
            /\ \E c \in commissions' \ commissions :
                 /\ c.transaction_id = req[s].transaction_id
                 /\ c.transaction_id = last'.id
                 /\ c.amount = req[s].fee
                 /\ c.status = "pending"
                 /\ \A t \in transactions' :
                      t._id = req[s].oid =>
                        t.fee = c.amount /\ t.transaction_id = c.transaction_id
    ]_vars

\* C1 witness: a creation with amount 1.50 has succeeded, the fee rounded up
C1_Witness ==
  /\ last.op = "create" /\ last.res = 200
  /\ \E t \in TransactionsOf(last.id) :
       /\ t.amount = 150 /\ t.fee = 2
       /\ \E c \in CommissionsOf(last.id) :
            c.amount = t.fee /\ c.status = "pending"

\* C2: no step changes the amount or the fee of a stored Transaction or the
\* amount of a stored Commission.
C2_FeeFixed ==
  [][/\ \A t \in transactions : \A u \in transactions' :
          t._id = u._id =>
            /\ u.amount = t.amount /\ u.fee = t.fee
            /\ u.transaction_id = t.transaction_id
     /\ \A c \in commissions : \A d \in commissions' :
          c._id = d._id =>
            d.amount = c.amount /\ d.transaction_id = c.transaction_id
    ]_vars

\* C2 witness: a transaction that was released and then refunded still
\* carries its fee, and so does its paid commission
C2_Witness ==
  \E t \in transactions :
    /\ t.status = "cancelled" /\ t.amount = 150 /\ t.fee = 2
    /\ \E c \in CommissionsOf(t.transaction_id) :
         c.status = "paid" /\ c.amount = 2

\* C3: in every reachable state every stored Transaction has a stored
\* Commission with the same transaction identifier.
C3_CommissionAccompanies ==
  \A t \in transactions : CommissionsOf(t.transaction_id) # {}

\* C4: in every reachable state a Transaction whose status is funded has a
\* stored Payment with the same transaction identifier.
C4_PaymentPrecedesFunded ==
  \A t \in transactions :
    t.status = "funded" => PaymentsOf(t.transaction_id) # {}

\* C5: a Payment is created with verified = false, and its verified flag
\* becomes true only in the Payment update of AdminVerifyPayment for its
\* transaction identifier.
C5_VerifiedOnlyByAdmin ==
  [][\A p \in payments' :
       p.verified =>
         \/ \E q \in payments : q._id = p._id /\ q.verified
         \/ /\ \E q \in payments : q._id = p._id
            /\ IsVerifyPaymentStep(p.transaction_id)
    ]_vars

\* C5 witness: of two payments submitted for one transaction, one has been
\* verified by the administrator and the other is still unverified
C5_Witness ==
  \E p \in payments, q \in payments :
    /\ p.transaction_id = q.transaction_id
    /\ p.verified /\ ~q.verified

\* C6: in every step that changes a Commission's status from pending to
\* paid, the Transaction with the same identifier exists and is completed.
C6_PaidOnlyWhenCompleted ==
  [][\A c \in commissions : \A d \in commissions' :
       (c._id = d._id /\ c.status = "pending" /\ d.status = "paid") =>
         \E t \in TransactionsOf(d.transaction_id) : t.status = "completed"
    ]_vars

\* C7: once a Transaction's status is completed, disputed or cancelled no
\* step changes it, and disputed and cancelled are entered only from
\* pending_payment, funded or delivered.
C7_TerminalStatesAreTerminal ==
  [][\A t \in transactions : \A u \in transactions' :
       (t._id = u._id /\ t.status \in {"completed", "disputed", "cancelled"})
         => u.status = t.status
    ]_vars

\* position of a status on the path pending_payment -> funded -> delivered
\* -> completed
Rank(status) ==
  CASE status = "pending_payment" -> 0
    [] status = "funded" -> 1
    [] status = "delivered" -> 2
    [] status = "completed" -> 3
    [] OTHER -> 4

\* C8: a status change goes to the next state of the path pending_payment ->
\* funded -> delivered -> completed or to a side branch; ConfirmDelivery
\* never moves pending_payment to delivered and no status moves backwards.
C8_MonotonicTransitions ==
  [][\A t \in transactions : \A u \in transactions' :
       (t._id = u._id /\ u.status # t.status) =>
         /\ Rank(u.status) > Rank(t.status)
         /\ last'.op \in {"delivery", "dispute"} =>
              Rank(u.status) = Rank(t.status) + 1 \/ Rank(u.status) = 4
    ]_vars

\* a successful AdminVerifyPayment has just responded; no other request was
\* in flight while it ran, and its transaction exists with at least one
\* Payment row
VerifyDone ==
  /\ last.op = "verify" /\ last.res = 200 /\ last.quiet
  /\ TransactionsOf(last.id) # {}
  /\ PaymentsOf(last.id) # {}

\* C9 as stated: after such an AdminVerifyPayment the Transaction is funded
\* and every Payment submitted for it has verified = true.
C9_VerifyAllPayments ==
  VerifyDone =>
    /\ \A t \in TransactionsOf(last.id) : t.status = "funded"
    /\ \A p \in PaymentsOf(last.id) : p.verified

\* C9 amended: after such an AdminVerifyPayment the Transaction is funded
\* and at least one Payment submitted for it has verified = true.
C9_VerifyOnePayment ==
  VerifyDone =>
    /\ \A t \in TransactionsOf(last.id) : t.status = "funded"
    /\ \E p \in PaymentsOf(last.id) : p.verified

\* C9 witness: AdminVerifyPayment has succeeded on a transaction with two
\* Payment rows
C9_Witness ==
  /\ VerifyDone
  /\ Cardinality(PaymentsOf(last.id)) = 2
  /\ \E p \in PaymentsOf(last.id) : p.verified

\* C10: after a successful AdminReleaseFunds on an existing transaction, with
\* no other request in flight while it ran, the Transaction is completed and
\* the Commission for its identifier is paid.
C10_ReleasePostcondition ==
  (/\ last.op = "release" /\ last.res = 200 /\ last.quiet
   /\ TransactionsOf(last.id) # {}) =>
    /\ \A t \in TransactionsOf(last.id) : t.status = "completed"
    /\ CommissionsOf(last.id) # {}
    /\ \A c \in CommissionsOf(last.id) : c.status = "paid"

\* C11: a successful AdminRefund leaves the Transaction with its identifier
\* cancelled and changes no Commission, no Payment and no other
\* Transaction, whatever the Commission's status was.
C11_RefundFrame ==
  [][(last'.op = "refund" /\ last'.res = 200) =>
       /\ \A t \in ByTransactionId(transactions', last'.id) :
            t.status = "cancelled"
       /\ \A t \in transactions :
            t.transaction_id # last'.id => t \in transactions'
       /\ Cardinality(transactions') = Cardinality(transactions)
       /\ commissions' = commissions
       /\ payments' = payments
    ]_vars

\* C11 witness: a refund has succeeded on a transaction whose Commission is
\* paid and still is
C11_Witness ==
  /\ last.op = "refund" /\ last.res = 200
  /\ \E t \in TransactionsOf(last.id) : t.status = "cancelled"
  /\ \E c \in CommissionsOf(last.id) : c.status = "paid"

\* C12: after a successful AdminDeletePayment(txId), with no other request
\* served while it ran, no Transaction, no Commission and no Payment row
\* with identifier txId remains.
C12_DeleteRemovesAll ==
  (last.op = "delete" /\ last.res = 200 /\ last.quiet) =>
    /\ TransactionsOf(last.id) = {}
    /\ CommissionsOf(last.id) = {}
    /\ PaymentsOf(last.id) = {}

\* C13: a successful ConfirmDelivery that directly follows a successful
\* ConfirmDelivery on the same transaction changes nothing in the store, and
\* the transaction is delivered.
C13_DeliveryIdempotent ==
  [][(/\ last.op = "delivery" /\ last.res = 200
      /\ last'.op = "delivery" /\ last'.res = 200 /\ last'.id = last.id) =>
       /\ transactions' = transactions
       /\ payments' = payments
       /\ commissions' = commissions
       /\ \A t \in ById(transactions', last'.id) : t.status = "delivered"
    ]_vars

\* C13 witness: ConfirmDelivery has succeeded on a stored transaction, which
\* is delivered
C13_Witness ==
  /\ last.op = "delivery" /\ last.res = 200
  /\ \E t \in ById(transactions, last.id) : t.status = "delivered"

\* C15: no step stores a Transaction whose amount is not > 0, and no step
\* stores a Commission for one.
C15_CreateValidation ==
  [][/\ \A t \in transactions' \ transactions : t.amount > 0
     /\ \A c \in commissions' \ commissions :
          \A t \in ById(transactions', c._id) : t.amount > 0
    ]_vars

\* C16: AdminVerifyPayment and AdminRefund on one identifier do not exclude
\* each other, and the last status write wins: a refund served while the
\* verification is suspended succeeds and leaves the status cancelled and
\* the verification suspended; the verification that then resumes succeeds
\* and leaves the status funded; a refund served right after a successful
\* verification leaves the status cancelled and the Payment verified.
C16_LastWriteWins ==
  [][/\ \A s \in Slots :
          (/\ req[s].pc = "verify_transaction"
           /\ last'.op = "refund" /\ last'.res = 200
           /\ last'.id = req[s].transaction_id) =>
            /\ \A t \in ByTransactionId(transactions', last'.id) :
                 t.status = "cancelled"
            /\ req'[s].pc = "verify_transaction"
            /\ payments' = payments
     /\ (/\ last.op = "refund" /\ last.res = 200
         /\ last'.op = "verify" /\ last'.res = 200 /\ last'.id = last.id) =>
          /\ \A t \in ByTransactionId(transactions', last'.id) :
               t.status = "funded"
          /\ payments' = payments
     /\ (/\ last.op = "verify" /\ last.res = 200
         /\ last'.op = "refund" /\ last'.res = 200 /\ last'.id = last.id) =>
          /\ \A t \in ByTransactionId(transactions', last'.id) :
               t.status = "cancelled"
          /\ payments' = payments
    ]_vars

\* C16 witness: a refund has succeeded while the verification of the same
\* transaction is suspended after its Payment write: the status is cancelled
\* and a Payment is verified
C16_Witness ==
  /\ last.op = "refund" /\ last.res = 200
  /\ \E s \in Slots :
       req[s].pc = "verify_transaction" /\ req[s].transaction_id = last.id
  /\ \E t \in TransactionsOf(last.id) : t.status = "cancelled"
  /\ \E p \in PaymentsOf(last.id) : p.verified

\* C17: when AdminVerifyPayment or AdminReleaseFunds answers 500 the store is
\* left as it is (the first write is not rolled back) and the handler is
\* over (nothing is retried: when no other request was in flight, none is
\* suspended afterwards).
C17_PartialFailurePersists ==
  [][(last'.op \in {"verify", "release"} /\ last'.res = 500) =>
       /\ transactions' = transactions
       /\ payments' = payments
       /\ commissions' = commissions
       /\ last'.quiet => \A s \in Slots : req'[s].pc = "idle"
    ]_vars

\* C17 witness: AdminReleaseFunds has answered 500 with nothing else served
\* meanwhile; the Transaction is completed, its Commission is pending, and a
\* Payment is verified
C17_Witness ==
  /\ last.op = "release" /\ last.res = 500 /\ last.quiet
  /\ \E t \in TransactionsOf(last.id) : t.status = "completed"
  /\ \E c \in CommissionsOf(last.id) : c.status = "pending"
  /\ \E p \in PaymentsOf(last.id) : p.verified

\* C14: a SubmitPayment that succeeds adds exactly one Payment row, with
\* verified = false, for the transaction identifier and with the reference
\* of its request, both present; one that fails adds none; neither changes a
\* stored Payment, a Transaction or a Commission.
C14_SubmitPaymentFrame ==
  [][last'.op = "payment" =>
       /\ transactions' = transactions
       /\ commissions' = commissions
       /\ payments \subseteq payments'
       /\ last'.res = 200 =>
            /\ Cardinality(payments') = Cardinality(payments) + 1
            /\ \A p \in payments' \ payments :
                 /\ ~p.verified
                 /\ p.transaction_id = last'.id
                 /\ p.transaction_id \in TxIDs
                 /\ p.momo_reference # 0
       /\ last'.res # 200 => payments' = payments
    ]_vars

\* C18: in every reachable state there is at most one Commission row per
\* transaction identifier.
C18_OneCommissionPerTransaction ==
  \A c \in commissions : \A d \in commissions :
    c.transaction_id = d.transaction_id => c = d

\* C19 as stated: ConfirmDelivery called with the transaction identifier of
\* a stored Transaction reports success and leaves it delivered.
C19_DeliveryByTransactionId ==
  [][(/\ last'.op = "delivery" /\ last'.id \in TxIDs
      /\ ByTransactionId(transactions, last'.id) # {}) =>
       /\ last'.res = 200
       /\ \A t \in ByTransactionId(transactions', last'.id) :
            t.status = "delivered"
    ]_vars

\* C19 amended: ConfirmDelivery called with the document id of a stored
\* Transaction, when it reports success, leaves that Transaction delivered
\* whatever its status was and changes no other; called with a transaction
\* identifier it answers 500 and changes nothing.
C19_DeliveryByObjectId ==
  [][last'.op = "delivery" =>
       /\ (last'.id \in ObjectIds /\ last'.res = 200) =>
            /\ \A t \in ById(transactions', last'.id) :
                 t.status = "delivered"
            /\ \A t \in transactions :
                 \E u \in transactions' :
                   /\ u._id = t._id
                   /\ t._id # last'.id => u = t
            /\ Cardinality(transactions') = Cardinality(transactions)
       /\ last'.id \in TxIDs =>
            last'.res = 500 /\ transactions' = transactions
       /\ last'.res = 500 => transactions' = transactions
    ]_vars

\* C19 witness: ConfirmDelivery by document id has succeeded on a
\* transaction that had been released: it is delivered and its Commission
\* is paid
C19_Witness ==
  /\ last.op = "delivery" /\ last.res = 200
  /\ \E t \in ById(transactions, last.id) :
       /\ t.status = "delivered"
       /\ \E c \in CommissionsOf(t.transaction_id) : c.status = "paid"

\* C20: no two stored Transactions have the same transaction identifier; no
\* step stores a Transaction under an identifier a stored Transaction holds;
\* a CreateTransaction that answers 500 changes no Transaction and no
\* Commission.
C20_CollisionGuard ==
  [][/\ \A t \in transactions' : \A u \in transactions' :
          t.transaction_id = u.transaction_id => t = u
     /\ \A t \in transactions' :
          (\A u \in transactions : u._id # t._id) =>
            \A u \in transactions : u.transaction_id # t.transaction_id
     /\ (last'.op = "create" /\ last'.res = 500) =>
          transactions' = transactions /\ commissions' = commissions
    ]_vars

\* C20 witness: a CreateTransaction whose generated identifier is held by a
\* stored Transaction has answered 500 while another Transaction could
\* still be stored; the Transaction and its single Commission are there
C20_Witness ==
  /\ last.op = "create" /\ last.res = 500
  /\ nextTransaction > 1 /\ nextTransaction <= MaxCreates
  /\ Cardinality(TransactionsOf(last.id)) = 1
  /\ Cardinality(CommissionsOf(last.id)) = 1

\* C21: in every reachable state, and already in those where no handler is
\* suspended at an await, every Commission row has a stored Transaction with
\* the same transaction identifier.
C21_NoOrphanCommission ==
  NoneInFlight =>
    \A c \in commissions : TransactionsOf(c.transaction_id) # {}

\* C22: in every reachable state a Transaction that is completed, with its
\* Commission paid, has a Payment with verified = true for its identifier.
C22_ReleaseOnlyFunded ==
  \A t \in transactions :
    (/\ t.status = "completed"
     /\ \E c \in CommissionsOf(t.transaction_id) : c.status = "paid") =>
      \E p \in PaymentsOf(t.transaction_id) : p.verified

\* C23: no step changes a stored Payment's verified flag from true to false
\* or a stored Commission's status from paid to pending.
C23_FlagsMonotonic ==
  [][/\ \A p \in payments : \A q \in payments' :
          (q._id = p._id /\ p.verified) => q.verified
     /\ \A c \in commissions : \A d \in commissions' :
          (d._id = c._id /\ c.status = "paid") => d.status = "paid"
    ]_vars

\* C23 witness: a dispute has been opened on a transaction that was verified
\* and released: its Payment is still verified and its Commission still paid
C23_Witness ==
  /\ last.op = "dispute" /\ last.res = 200
  /\ \E t \in ById(transactions, last.id) :
       /\ t.status = "disputed"
       /\ \E p \in PaymentsOf(t.transaction_id) : p.verified
       /\ \E c \in CommissionsOf(t.transaction_id) : c.status = "paid"

\* the awaits of the four administrative handlers
AdminAwaits ==
  {"verify_transaction", "release_commission", "delete_transaction",
   "delete_commission"}

\* the step is a store operation of AdminVerifyPayment, AdminReleaseFunds,
\* AdminRefund or AdminDeletePayment called with txid
IsAdminStep(txid) ==
  \/ last'.op = "refund" /\ last'.id = txid
  \/ \E s \in Slots :
       /\ req'[s].pc # req[s].pc
       /\ \/ req[s].pc \in AdminAwaits /\ req[s].transaction_id = txid
          \/ req'[s].pc \in AdminAwaits /\ req'[s].transaction_id = txid

\* from before to after, at most one document is changed or removed, it has
\* the identifier txid, and no document is added
TouchesOnly(before, after, txid) ==
  /\ \A d \in before : d.transaction_id # txid => d \in after
  /\ \A d \in after :
       \/ d \in before
       \/ \E e \in before :
            /\ e._id = d._id
            /\ e.transaction_id = txid /\ d.transaction_id = txid
  /\ Cardinality(before \ after) <= 1
  /\ Cardinality(after) <= Cardinality(before)

\* C24: a store operation of an administrative handler called with
\* identifier X changes or removes at most one Transaction, one Payment and
\* one Commission row, each with identifier X, adds none and leaves the
\* rows of other identifiers as they are; when no row has identifier X the
\* store is unchanged.
C24_Isolation ==
  [][\A txid \in TxIDs :
       IsAdminStep(txid) =>
         /\ TouchesOnly(transactions, transactions', txid)
         /\ TouchesOnly(payments, payments', txid)
         /\ TouchesOnly(commissions, commissions', txid)
         /\ (/\ TransactionsOf(txid) = {}
             /\ PaymentsOf(txid) = {}
             /\ CommissionsOf(txid) = {}) =>
              /\ transactions' = transactions
              /\ payments' = payments
              /\ commissions' = commissions
    ]_vars

\* C24 witness: AdminReleaseFunds has reported success, with nothing else
\* served meanwhile, for an identifier no row has, while a Transaction, a
\* Commission and a Payment of another identifier are stored untouched
C24_Witness ==
  /\ last.op = "release" /\ last.res = 200 /\ last.quiet
  /\ TransactionsOf(last.id) = {}
  /\ CommissionsOf(last.id) = {}
  /\ PaymentsOf(last.id) = {}
  /\ \E t \in transactions :
       /\ t.status = "pending_payment"
       /\ \E c \in CommissionsOf(t.transaction_id) : c.status = "pending"
       /\ \E p \in PaymentsOf(t.transaction_id) : ~p.verified

====
